---- MODULE Spec2Model ----
(***************************************************************************)
(* Model of uring_file: asynchronous file I/O on top of io_uring.          *)
(*                                                                         *)
(* The Uring object (src/uring_file.py:19-106) owns the kernel ring, the   *)
(* eventfd and the correlation table `store`; the File object              *)
(* (src/uring_file.py:112-184) adds a descriptor and an offset cursor.     *)
(* The kernel and the asyncio loop are the environment: the kernel         *)
(* completes submitted entries in any order, the loop calls                *)
(* eventfd_callback when the eventfd is readable and resumes a coroutine   *)
(* once the future it awaits is done.                                      *)
(***************************************************************************)
EXTENDS Integers, Sequences, FiniteSets, TLC

(* ---------------------------- bounds ----------------------------------- *)
MaxOps == 3          \* submissions made in one behaviour
MaxIds == 3          \* distinct addresses id(future) can take
MaxFds == 2          \* descriptors the process may hold open at once
NumTasks == 2        \* coroutines sharing one File handle
MaxDisk == 1         \* length of the file in the ring and handle specifications
MaxRaise == 2        \* cleanup() calls that raise in one behaviour
MaxExtra == 2        \* bytes past one chunk in the files of the line specification
MaxNewlines == 2     \* newlines in the files of the line specification
MaxStale == 1        \* submission slots taken and left unprepared at one time
MaxPayload == 2      \* length of the data of one write in the round-trip specification

(* --------------------------- constants --------------------------------- *)
ChunkSize == 32      \* readline's chunk, src/uring_file.py:163
NL == 10             \* b'\n', src/uring_file.py:164
EIO == 5             \* errno values the kernel reports as -errno
EBADF == 9
EMFILE == 24
FirstFd == 3         \* lowest descriptor number the kernel hands out
None == 0 - 1        \* Python's None for File._fd and for results without a value

Ids == 1..MaxIds
FdPool == FirstFd..(FirstFd + MaxFds - 1)
Tasks == 1..NumTasks

Min(a, b) == IF a < b THEN a ELSE b
Max(a, b) == IF a < b THEN b ELSE a

VARIABLES
  \* Uring object
  setup_done,      \* Uring._setup_done
  store,           \* Uring.store: id(future) -> (request_type, future, *args)
  loop_reader,     \* loop.add_reader(event_fd, eventfd_callback) is in force
  atexit_hooks,    \* number of atexit.register(self.cleanup) calls made
  \* kernel
  ring_live,       \* the kernel ring behind Uring.ring exists
  init_count,      \* io_uring_queue_init calls
  exit_count,      \* io_uring_queue_exit calls
  sq,              \* entries handed to the kernel and not yet completed
  unprepared,      \* slots taken by io_uring_get_sqe that no prep call filled
  cq,              \* completion queue, oldest first
  event_fd,        \* eventfd counter
  kfds,            \* descriptors open in the process
  disk,            \* content of the file
  \* asyncio
  futs,            \* the asyncio.Future objects created by _submit, by creation number
  nfut,            \* number of futures created (= number of submissions)
  ready,           \* futures whose waiter the loop has scheduled (call_soon), oldest first
  cb_raised,       \* exceptions that escaped eventfd_callback, oldest first
  cleanup_raised,  \* number of cleanup() calls that raised
  \* process
  exiting,         \* the interpreter is running its atexit hooks
  hooks_left,      \* atexit hooks still to run
  \* File object and the coroutines using it
  f_fd,            \* File._fd
  f_offset,        \* File._offset
  pc,              \* per task: where the coroutine stands
  tl               \* per task: its local variables

ringvars == <<setup_done, store, loop_reader, atexit_hooks, ring_live, init_count,
              exit_count, sq, unprepared, cq, event_fd, futs, nfut, ready,
              cb_raised, cleanup_raised>>
procvars == <<exiting, hooks_left>>
kernvars == <<kfds, disk>>
filevars == <<f_fd, f_offset, pc, tl>>
vars == <<ringvars, procvars, kernvars, filevars>>

(* ------------------------- Uring: pure part ---------------------------- *)
\* The Uring object together with the kernel ring and the futures, as one
\* value; kfds is the process's descriptor table as io_uring_submit sees it.
Ring ==
  [kfds |-> kfds, setup_done |-> setup_done, store |-> store, loop_reader |-> loop_reader,
   atexit_hooks |-> atexit_hooks, ring_live |-> ring_live, init_count |-> init_count,
   exit_count |-> exit_count, sq |-> sq, unprepared |-> unprepared, cq |-> cq,
   event_fd |-> event_fd,
   futs |-> futs, nfut |-> nfut, ready |-> ready,
   cb_raised |-> cb_raised, cleanup_raised |-> cleanup_raised]

Install(r) ==
  /\ setup_done' = r.setup_done
  /\ store' = r.store
  /\ loop_reader' = r.loop_reader
  /\ atexit_hooks' = r.atexit_hooks
  /\ ring_live' = r.ring_live
  /\ init_count' = r.init_count
  /\ exit_count' = r.exit_count
  /\ sq' = r.sq
  /\ unprepared' = r.unprepared
  /\ cq' = r.cq
  /\ event_fd' = r.event_fd
  /\ futs' = r.futs
  /\ nfut' = r.nfut
  /\ ready' = r.ready
  /\ cb_raised' = r.cb_raised
  /\ cleanup_raised' = r.cleanup_raised

\* Uring.__init__: cheap fields only, no kernel ring yet.
Uring_init ==
  [setup_done |-> FALSE, store |-> <<>>, loop_reader |-> FALSE, atexit_hooks |-> 0,
   ring_live |-> FALSE, init_count |-> 0, exit_count |-> 0, sq |-> {}, unprepared |-> 0,
   cq |-> <<>>,
   event_fd |-> 0, futs |-> <<>>, nfut |-> 0, ready |-> <<>>,
   cb_raised |-> <<>>, cleanup_raised |-> 0]

\* (mutant) setup without atexit.register
setup_nohook(r) ==
  [r EXCEPT !.ring_live = TRUE, !.init_count = @ + 1, !.sq = {}, !.unprepared = 0,
            !.cq = <<>>, !.loop_reader = TRUE, !.setup_done = TRUE]

\* Uring.setup: queue_init, register_eventfd, add_reader, atexit.register.
setup(r) ==
  [r EXCEPT !.ring_live = TRUE, !.init_count = @ + 1, !.sq = {}, !.unprepared = 0,
            !.cq = <<>>, !.loop_reader = TRUE, !.atexit_hooks = @ + 1, !.setup_done = TRUE]

\* (mutant) setup on every call, whatever the flag says
get_sqe_always(r) == setup(r)

\* Uring._get_sqe: lazy setup, then a submission slot of the ring.
get_sqe(r) == IF ~r.setup_done THEN setup(r) ELSE r

\* Addresses of the Future objects that are still referenced: by the store,
\* or by the coroutine that awaits them.
LiveIds(r) ==
  DOMAIN r.store \cup {r.futs[o].addr : o \in {x \in 1..r.nfut : r.futs[x].held}}

\* map with one more key / one key less
MapPut(m, k, v) == [x \in DOMAIN m \cup {k} |-> IF x = k THEN v ELSE m[x]]

\* (mutant) the key is not removed
MapDel_keep(m, k) == m

MapDel(m, k) == [x \in DOMAIN m \ {k} |-> m[x]]

Zeros(n) == [i \in 1..n |-> 0]

\* No completion (ghost value of a future that is not resolved).
NoCqe == [user_data |-> 0, res |-> 0, op |-> 0, xfer |-> <<>>]

\* A slot that io_uring_get_sqe handed out and nothing was written to: the
\* zeroed entry of a fresh ring, which is a NOP with user_data 0.
\* io_uring_submit hands it to the kernel with everything else up to the tail.
Stale(i) ==
  [user_data |-> 0, op |-> 0, kind |-> "NOP", fd |-> None, file |-> FALSE, size |-> 0,
   offset |-> i, data |-> <<>>]

\* Uring._submit: a new Future, user_data = id(future), store entry, io_uring_submit.
\* `sqe` carries what the prep call put into the slot; `args` is what the
\* store keeps besides the type and the future.  The kernel resolves the
\* descriptor of a read or write when the entry is submitted and keeps the
\* file from then on (`file`), whatever happens to the descriptor later.
submit(r, request_type, sqe, args, a) ==
  LET o == r.nfut + 1
      future == [addr |-> a, kind |-> request_type, state |-> "pending",
                 ival |-> None, bval |-> <<>>, nres |-> 0, held |-> TRUE, cqe |-> NoCqe]
      entry == [request_type |-> request_type, future |-> o, args |-> args]
      e == [user_data |-> a, op |-> o, kind |-> request_type, fd |-> sqe.fd,
            file |-> request_type \in {"READ", "WRITE"} /\ sqe.fd \in r.kfds,
            size |-> sqe.size, offset |-> sqe.offset, data |-> sqe.data]
  IN [r EXCEPT !.nfut = o,
               !.futs = Append(@, future),
               !.store = MapPut(@, a, entry),
               !.sq = @ \cup {e} \cup {Stale(i) : i \in 1..r.unprepared},
               !.unprepared = 0]

\* submit_open_entry / submit_close_entry / submit_read_entry / submit_write_entry
submit_open_entry(r, a) ==
  submit(get_sqe(r), "OPEN", [fd |-> None, size |-> 0, offset |-> 0, data |-> <<>>], <<>>, a)

submit_close_entry(r, fd, a) ==
  submit(get_sqe(r), "CLOSE", [fd |-> fd, size |-> 0, offset |-> 0, data |-> <<>>], <<>>, a)

submit_read_entry(r, fd, size, offset, a) ==
  submit(get_sqe(r), "READ", [fd |-> fd, size |-> size, offset |-> offset, data |-> <<>>],
         Zeros(size), a)

submit_write_entry(r, fd, data, offset, a) ==
  submit(get_sqe(r), "WRITE", [fd |-> fd, size |-> Len(data), offset |-> offset, data |-> data],
         <<>>, a)

\* liburing.trap_error: a negative value raises OSError, any other is returned.
trap_error(res) == [raises |-> res < 0, result |-> res]

\* (mutant) the entry is not looked up by the completion's user_data
Lookup_any(st, cqe) == st[CHOOSE k \in DOMAIN st : TRUE]

\* self.store[cqe.user_data]
Lookup(st, cqe) == st[cqe.user_data]

\* future.set_result(...) by request type: the descriptor for OPEN, the
\* bytearray kept in the store for READ, None for CLOSE and WRITE.
ResultOf(entry, result) ==
  [ival |-> IF entry.request_type = "OPEN" THEN result ELSE None,
   bval |-> IF entry.request_type = "READ" THEN entry.args ELSE <<>>]

\* (mutant) the newest completion is taken
peek_cqe_newest(q) == q[Len(q)]

\* io_uring_peek_cqe: the oldest completion that is not marked seen.
peek_cqe(q) == Head(q)

\* One turn of the loop of eventfd_callback on the oldest completion.
DrainOne(r) ==
  LET cqe == peek_cqe(r.cq)
      t == trap_error(cqe.res)
  IN IF t.raises
       THEN [r EXCEPT !.cb_raised = Append(@, "OSError")]
     ELSE IF cqe.user_data \notin DOMAIN r.store
       THEN [r EXCEPT !.cb_raised = Append(@, "KeyError")]
     ELSE LET entry == Lookup(r.store, cqe)
              o == entry.future
              v == ResultOf(entry, t.result)
          IN IF r.futs[o].state = "done"
               THEN [r EXCEPT !.cb_raised = Append(@, "InvalidStateError"),
                              !.futs[o].nres = @ + 1]
             ELSE [r EXCEPT !.futs[o].state = "done",
                            !.futs[o].ival = v.ival,
                            !.futs[o].bval = v.bval,
                            !.futs[o].nres = @ + 1,
                            !.futs[o].cqe = cqe,
                            !.ready = Append(@, o),
                            !.store = MapDel(@, cqe.user_data),
                            !.cq = Tail(@)]

\* The while loop of eventfd_callback: until peek_cqe finds nothing, or an
\* exception leaves the callback.
RECURSIVE Drain(_)
Drain(r) ==
  IF r.cq = <<>> THEN r
  ELSE LET r2 == DrainOne(r)
       IN IF Len(r2.cb_raised) > Len(r.cb_raised) THEN r2 ELSE Drain(r2)

\* Uring.eventfd_callback
eventfd_callback(r) == Drain([r EXCEPT !.event_fd = 0])

\* Uring.cleanup.  The liburing calls raise OSError on a negative return:
\* on a ring that is not live, unregister_eventfd fails and nothing after it runs.
cleanup(r) ==
  IF ~r.ring_live
    THEN [r EXCEPT !.cleanup_raised = @ + 1]
    ELSE [r EXCEPT !.ring_live = FALSE, !.exit_count = @ + 1, !.sq = {}, !.unprepared = 0,
                   !.cq = <<>>, !.loop_reader = FALSE, !.setup_done = FALSE]

(* ------------------------------ kernel --------------------------------- *)
\* Bytes of the file from offset off, at most n of them.
FileBytes(d, off, n) ==
  IF off >= Len(d) \/ n <= 0 THEN <<>> ELSE SubSeq(d, off + 1, Min(Len(d), off + n))

\* The file after data was written at offset off (a hole reads as zeros).
FileWrite(d, off, data) ==
  [i \in 1..Max(Len(d), off + Len(data)) |->
     IF i > off /\ i <= off + Len(data) THEN data[i - off]
     ELSE IF i <= Len(d) THEN d[i] ELSE 0]

\* The buffer after the kernel copied bytes b to its start.
Fill(buf, b) == [i \in 1..Len(buf) |-> IF i <= Len(b) THEN b[i] ELSE buf[i]]

LowestFree(fds) == CHOOSE f \in FdPool \ fds : \A g \in FdPool \ fds : f <= g

\* Result code of an entry when the operation itself goes through.
Natural(e, fds, d) ==
  CASE e.kind = "OPEN"  -> IF FdPool \ fds = {} THEN 0 - EMFILE ELSE LowestFree(fds)
    [] e.kind = "CLOSE" -> IF e.fd \in fds THEN 0 ELSE 0 - EBADF
    [] e.kind = "READ"  -> IF e.file THEN Len(FileBytes(d, e.offset, e.size)) ELSE 0 - EBADF
    [] e.kind = "WRITE" -> IF e.file THEN Len(e.data) ELSE 0 - EBADF
    [] e.kind = "NOP"   -> 0

\* Result codes the kernel may report for an entry: the natural one, or an
\* I/O error in place of a success.
Outcomes(e, fds, d) ==
  IF Natural(e, fds, d) < 0 THEN {Natural(e, fds, d)} ELSE {Natural(e, fds, d), 0 - EIO}

\* The kernel completes one in-flight entry, in any order: it performs the
\* operation, posts the completion and signals the eventfd.
KernelComplete(e, res) ==
  /\ ~exiting
  /\ ring_live
  /\ e \in sq
  /\ res \in Outcomes(e, kfds, disk)
  /\ LET xfer == IF e.kind = "READ" /\ res > 0 THEN FileBytes(disk, e.offset, res) ELSE <<>>
         cqe == [user_data |-> e.user_data, res |-> res, op |-> e.op, xfer |-> xfer]
     IN /\ sq' = sq \ {e}
        /\ cq' = Append(cq, cqe)
        /\ event_fd' = 1
        /\ store' = IF e.kind = "READ" /\ res > 0 /\ e.user_data \in DOMAIN store
                      THEN [store EXCEPT ![e.user_data].args = Fill(@, xfer)]
                      ELSE store
        /\ kfds' = CASE e.kind = "OPEN" /\ res >= 0 -> kfds \cup {res}
                     [] e.kind = "CLOSE" /\ e.fd \in kfds -> kfds \ {e.fd}
                     [] OTHER -> kfds
        /\ disk' = IF e.kind = "WRITE" /\ res >= 0 THEN FileWrite(disk, e.offset, e.data) ELSE disk
  /\ UNCHANGED <<setup_done, loop_reader, atexit_hooks, ring_live, init_count, exit_count,
                 unprepared, futs, nfut, ready, cb_raised, cleanup_raised>>
  /\ UNCHANGED <<procvars, filevars>>

Complete == \E e \in sq : \E res \in Outcomes(e, kfds, disk) : KernelComplete(e, res)

\* Another process truncates the file by one byte: os.stat in File.read and
\* the kernel's read are not atomic, the size can change between them.
Shrink ==
  /\ ~exiting
  /\ disk # <<>>
  /\ disk' = SubSeq(disk, 1, Len(disk) - 1)
  /\ UNCHANGED <<ringvars, procvars, kfds, filevars>>

(* ---------------------- event loop and process ------------------------- *)
\* The loop finds the eventfd readable and calls the registered reader.
Callback ==
  /\ ~exiting
  /\ loop_reader
  /\ event_fd > 0
  /\ Install(eventfd_callback(Ring))
  /\ UNCHANGED <<procvars, kernvars, filevars>>

\* An explicit call of Uring.cleanup().
Cleanup ==
  /\ ~exiting
  /\ cleanup_raised < MaxRaise
  /\ Install(cleanup(Ring))
  /\ UNCHANGED <<procvars, kernvars, filevars>>

\* The interpreter exits: the atexit hooks registered by setup() will run.
ProcessExit ==
  /\ ~exiting
  /\ exiting' = TRUE
  /\ hooks_left' = atexit_hooks
  /\ UNCHANGED <<ringvars, kernvars, filevars>>

\* One atexit hook: cleanup(); an exception in a hook is printed and the next hook runs.
AtExitHook ==
  /\ exiting
  /\ hooks_left > 0
  /\ hooks_left' = hooks_left - 1
  /\ Install(cleanup(Ring))
  /\ UNCHANGED <<exiting, kernvars, filevars>>

(* ------------------- callers of the ring primitives -------------------- *)
\* id(future) of a new Future: an address no live object has.  Addresses
\* never used so far are interchangeable, so the lowest stands for them.
UsedIds(r) == {r.futs[o].addr : o \in 1..r.nfut}
FreeIds(r) ==
  LET free == Ids \ LiveIds(r)
      fresh == free \ UsedIds(r)
  IN (free \cap UsedIds(r)) \cup {x \in fresh : \A y \in fresh : x <= y}
CanSubmit == ~exiting /\ nfut < MaxOps

\* Futures awaited by a coroutine of the File layer.
TaskFuts == {tl[t].fut : t \in Tasks}

\* Descriptors the callers of the primitives pass: the lowest number.
RawFds == {FirstFd}

RawOpen ==
  /\ CanSubmit
  /\ \E a \in FreeIds(Ring) : Install(submit_open_entry(Ring, a))
  /\ UNCHANGED <<procvars, kernvars, filevars>>

RawClose ==
  /\ CanSubmit
  /\ \E a \in FreeIds(Ring), fd \in RawFds : Install(submit_close_entry(Ring, fd, a))
  /\ UNCHANGED <<procvars, kernvars, filevars>>

RawRead ==
  /\ CanSubmit
  /\ \E a \in FreeIds(Ring), fd \in RawFds, offset \in 0..1 :
       Install(submit_read_entry(Ring, fd, 2, offset, a))
  /\ UNCHANGED <<procvars, kernvars, filevars>>

RawWrite ==
  /\ CanSubmit
  /\ \E a \in FreeIds(Ring), fd \in RawFds :
       Install(submit_write_entry(Ring, fd, <<120>>, 1, a))
  /\ UNCHANGED <<procvars, kernvars, filevars>>

\* The caller's `await future` returns once the future is done; the caller
\* then drops its reference to the future.
RawAwait ==
  /\ ~exiting
  /\ ready # <<>>
  /\ Head(ready) \notin TaskFuts
  /\ futs' = [futs EXCEPT ![Head(ready)].held = FALSE]
  /\ ready' = Tail(ready)
  /\ UNCHANGED <<setup_done, store, loop_reader, atexit_hooks, ring_live, init_count,
                 exit_count, sq, unprepared, cq, event_fd, nfut, cb_raised, cleanup_raised>>
  /\ UNCHANGED <<procvars, kernvars, filevars>>

(* ------------------------------ File ----------------------------------- *)
(* A coroutine of the File layer runs without interruption from the point  *)
(* where it is started or resumed to its next `await` of a pending future  *)
(* (asyncio is cooperative).  Its state while it runs is a record          *)
(*   r       the Uring object, kernel ring and futures                     *)
(*   fd, offset   File._fd, File._offset                                   *)
(*   stack   the suspended callers, innermost last                         *)
(*   out     the lines an `async for` has produced                         *)
(*   mode    "ret": val is being returned to the innermost caller          *)
(*           "exc": exception exc is propagating                           *)
(*           "wait": suspended on future fut                               *)
(*           "idle": the task's statement is finished                      *)
(*           "blocked": a submission beyond the bounds of the model        *)
(***************************************************************************)
Frame(fn, line, exc) == [fn |-> fn, line |-> line, exc |-> exc]
Top(st) == st[Len(st)]
Pop(st) == SubSeq(st, 1, Len(st) - 1)

Return(M, v) == [M EXCEPT !.mode = "ret", !.val = v]
Raise(M, e) == [M EXCEPT !.mode = "exc", !.exc = e]

\* `await self._uring.submit_..._entry(...)`: r2 is the ring after the
\* submission, fr the frame of the coroutine that awaits the new future.
Await(M, r2, fr) ==
  [M EXCEPT !.r = r2, !.stack = Append(@, fr), !.mode = "wait", !.fut = r2.nfut]

Blocked(M, a) == M.r.nfut >= MaxOps \/ a \notin Ids

\* File.open(): the synchronous part, the assertion.
File_open_assert(fd) == fd = None

\* _open_wrapper up to its await.
File_open(M, a) ==
  IF Blocked(M, a) THEN [M EXCEPT !.mode = "blocked"]
  ELSE Await(M, submit_open_entry(M.r, a), Frame("open", <<>>, ""))

\* _open_wrapper after its await: self._fd = <result>.
File_open_resume(M, f) == [Return(M, <<>>) EXCEPT !.fd = f.ival]

\* File.close up to its await.
File_close(M, a) ==
  IF M.fd = None THEN Raise(M, "AssertionError")
  ELSE IF Blocked(M, a) THEN [M EXCEPT !.mode = "blocked"]
  ELSE Await(M, submit_close_entry(M.r, M.fd, a), Frame("close", <<>>, ""))

\* File.close after its await.
File_close_resume(M, f) == [Return(M, <<>>) EXCEPT !.offset = 0, !.fd = None]

\* size = min(size, fsize - self._offset), with size = fsize when it is None.
ClampSize(size, fsize, offset) ==
  Min(IF size = None THEN fsize ELSE size, fsize - offset)

\* (mutant) the offset is left after the whole chunk
LineEnd_chunk(offset, nl, chunk) == offset

\* self._offset += nl + 1 - len(chunk)
LineEnd(offset, nl, chunk) == offset + nl + 1 - Len(chunk)

\* (mutant) a size of 0 is not caught
ReadNothing_neg(size) == size < 0

\* `if size <= 0: return b''`
ReadNothing(size) == size <= 0

\* File.read up to its await; os.stat(...).st_size is the length of the file now.
File_read(M, size, a) ==
  IF M.fd = None THEN Raise(M, "AssertionError")
  ELSE LET sz == ClampSize(size, Len(disk), M.offset)
       IN IF ReadNothing(sz) THEN Return(M, <<>>)
          ELSE IF Blocked(M, a) THEN [M EXCEPT !.mode = "blocked"]
          ELSE Await(M, submit_read_entry(M.r, M.fd, sz, M.offset, a), Frame("read", <<>>, ""))

\* File.read after its await: self._offset += len(data); return bytes(data).
File_read_resume(M, f) == [Return(M, f.bval) EXCEPT !.offset = @ + Len(f.bval)]

\* File.write up to its await.  There is no assertion on the descriptor:
\* with _fd None, submit_write_entry takes a slot (after the lazy setup) and
\* prep_writev then rejects None with TypeError, leaving the slot unprepared.
File_write(M, data, a) ==
  IF M.fd = None
    THEN IF get_sqe(M.r).unprepared >= MaxStale THEN [M EXCEPT !.mode = "blocked"]
         ELSE [Raise(M, "TypeError") EXCEPT !.r = [get_sqe(M.r) EXCEPT !.unprepared = @ + 1]]
  ELSE IF Blocked(M, a) THEN [M EXCEPT !.mode = "blocked"]
  ELSE Await(M, submit_write_entry(M.r, M.fd, data, M.offset, a), Frame("write", data, ""))

\* (mutant) the offset is not advanced by the write
File_write_resume_stay(M, fr) == Return(M, <<>>)

\* File.write after its await: self._offset += len(data).
File_write_resume(M, fr) == [Return(M, <<>>) EXCEPT !.offset = @ + Len(fr.line)]

\* bytes.find(b'\n'): index of the first newline counted from 0, or -1.
Find(chunk, b) ==
  IF \E i \in 1..Len(chunk) : chunk[i] = b
    THEN (CHOOSE i \in 1..Len(chunk) : chunk[i] = b /\ \A j \in 1..(i - 1) : chunk[j] # b) - 1
    ELSE 0 - 1

\* File.readline: the call, which starts the first read(32).
File_readline(M, a) ==
  File_read([M EXCEPT !.stack = Append(@, Frame("readline", <<>>, ""))], ChunkSize, a)

\* File.readline: the body of the loop for the chunk that read(32) returned.
File_readline_chunk(M, a) ==
  LET top == Top(M.stack)
      chunk == M.val
      nl == Find(chunk, NL)
  IN IF chunk = <<>>
       THEN [Return(M, top.line) EXCEPT !.stack = Pop(@)]
     ELSE IF nl # 0 - 1
       THEN [Return(M, top.line \o SubSeq(chunk, 1, nl)) EXCEPT
               !.stack = Pop(@), !.offset = LineEnd(@, nl, chunk)]
     ELSE File_read([M EXCEPT !.stack = Append(Pop(@), [top EXCEPT !.line = @ \o chunk])],
                    ChunkSize, a)

\* File.__aiter__: the call of readline() at the head of the loop.
File_aiter(M, a) ==
  File_readline([M EXCEPT !.stack = Append(@, Frame("aiter", <<>>, ""))], a)

\* File.__aiter__: the line readline() returned; an empty one ends the iteration.
File_aiter_line(M, a) ==
  IF M.val = <<>>
    THEN [Return(M, <<>>) EXCEPT !.stack = Pop(@)]
    ELSE File_readline([M EXCEPT !.out = Append(@, M.val)], a)

\* _MaybeContextManager.__aenter__: await _open_wrapper().
Manager_aenter(M, a) ==
  File_open([M EXCEPT !.stack = Append(@, Frame("aenter", <<>>, ""))], a)

\* (mutant) close() only when the block was left normally
Manager_aexit_normal(M, exc, a) ==
  IF exc = ""
    THEN File_close([M EXCEPT !.stack = Append(Pop(@), Frame("aexit", <<>>, exc)),
                              !.mode = "ret", !.exc = ""], a)
    ELSE [M EXCEPT !.stack = Pop(@)]

\* _MaybeContextManager.__aexit__: await _close_wrapper(); exc is the
\* exception that left the block, "" on a normal exit.
Manager_aexit(M, exc, a) ==
  File_close([M EXCEPT !.stack = Append(Pop(@), Frame("aexit", <<>>, exc)),
                       !.mode = "ret", !.exc = ""], a)

\* The coroutine runs on until it suspends or its statement is finished.
RECURSIVE Run(_, _)
Run(M, a) ==
  IF M.mode \in {"wait", "idle", "blocked"} THEN M
  ELSE IF M.stack = <<>> THEN [M EXCEPT !.mode = "idle"]
  ELSE LET top == Top(M.stack)
       IN CASE top.fn = "with" ->
                 \* inside the block of `async with`
                 IF M.mode = "exc" THEN Run(Manager_aexit(M, M.exc, a), a)
                 ELSE [M EXCEPT !.mode = "idle"]
            [] top.fn = "aenter" ->
                 IF M.mode = "exc" THEN Run([M EXCEPT !.stack = Pop(@)], a)
                 ELSE [M EXCEPT !.stack = Append(Pop(@), Frame("with", <<>>, "")),
                                !.mode = "idle"]
            [] top.fn = "aexit" ->
                 \* __aexit__ returns None: the exception of the block goes on;
                 \* an exception of close() replaces it
                 IF M.mode = "exc" \/ top.exc = "" THEN Run([M EXCEPT !.stack = Pop(@)], a)
                 ELSE Run([Raise(M, top.exc) EXCEPT !.stack = Pop(@)], a)
            [] top.fn = "readline" ->
                 IF M.mode = "exc" THEN Run([M EXCEPT !.stack = Pop(@)], a)
                 ELSE Run(File_readline_chunk(M, a), a)
            [] top.fn = "aiter" ->
                 IF M.mode = "exc" THEN Run([M EXCEPT !.stack = Pop(@)], a)
                 ELSE Run(File_aiter_line(M, a), a)

\* The coroutine is resumed with the done future f it was awaiting.
Resumed(M, f) ==
  LET top == Top(M.stack)
      M1 == [M EXCEPT !.stack = Pop(@), !.fut = 0]
  IN CASE top.fn = "open"  -> File_open_resume(M1, f)
       [] top.fn = "close" -> File_close_resume(M1, f)
       [] top.fn = "read"  -> File_read_resume(M1, f)
       [] top.fn = "write" -> File_write_resume(M1, top)

(* ------------------------------ tasks ---------------------------------- *)
Machine(t) ==
  [r |-> Ring, fd |-> f_fd, offset |-> f_offset, stack |-> tl[t].stack, out |-> tl[t].out,
   mode |-> "ret", val |-> <<>>, exc |-> "", fut |-> 0]

\* File.__init__ seen from a task: nothing awaited, nothing returned yet.
TaskInit == [fut |-> 0, stack |-> <<>>, out |-> <<>>, val |-> <<>>, exc |-> "",
             mgr |-> FALSE, op |-> "", prev_empty |-> FALSE, iter_from |-> 0]

\* The tasks whose statements' results (val, exc, op, ...) are recorded;
\* what the other tasks' statements returned is not kept.
Observed == {1}

\* History kept for a readline() statement: the statement before it was a
\* readline() that returned an empty result.
PrevEmpty(t, op) ==
  IF op # "readline" THEN FALSE
  ELSE IF pc[t] = "wait" THEN tl[t].prev_empty
  ELSE tl[t].op = "readline" /\ tl[t].val = <<>> /\ tl[t].exc = ""

\* History kept for an `async for` or a readline() statement: the offset
\* it started from.
IterFrom(t, op) ==
  IF op \notin {"aiter", "readline"} THEN 0
  ELSE IF pc[t] = "wait" THEN tl[t].iter_from
  ELSE f_offset

\* The state after task t ran to M; op names the statement it is in (history).
InstallTask(t, M, op, mgr) ==
  /\ M.mode # "blocked"
  /\ Install(M.r)
  /\ f_fd' = M.fd
  /\ f_offset' = M.offset
  /\ pc' = [pc EXCEPT ![t] = IF M.mode = "wait" THEN "wait" ELSE "idle"]
  /\ tl' = [tl EXCEPT ![t] =
              IF t \in Observed
                THEN [fut |-> M.fut, stack |-> M.stack, out |-> M.out,
                      val |-> M.val, exc |-> M.exc, mgr |-> mgr, op |-> op,
                      prev_empty |-> PrevEmpty(t, op), iter_from |-> IterFrom(t, op)]
                ELSE [TaskInit EXCEPT !.fut = M.fut, !.stack = M.stack, !.out = M.out,
                                      !.mgr = mgr]]
  /\ UNCHANGED <<procvars, kernvars>>

\* Addresses a Future created now may get (0: none left within the bounds).
AddrOf(r) == IF FreeIds(r) = {} THEN {0} ELSE FreeIds(r)
Addr == AddrOf(Ring)
Ready(t) == ~exiting /\ pc[t] = "idle"
InWith(t) == tl[t].stack # <<>> /\ Top(tl[t].stack).fn = "with"

\* m = f.open(...): the assertion, then the manager object.
OpenCall(t) ==
  /\ Ready(t)
  /\ ~tl[t].mgr
  /\ IF File_open_assert(f_fd)
       THEN InstallTask(t, [Machine(t) EXCEPT !.mode = "idle"], "open()", TRUE)
       ELSE InstallTask(t, Run(Raise(Machine(t), "AssertionError"), 0), "open()", FALSE)

\* await m
OpenAwait(t) ==
  /\ Ready(t)
  /\ tl[t].mgr
  /\ \E a \in Addr : InstallTask(t, Run(File_open(Machine(t), a), a), "open", FALSE)

\* async with m as f: ...
WithEnter(t) ==
  /\ Ready(t)
  /\ tl[t].mgr
  /\ ~InWith(t)
  /\ \E a \in Addr : InstallTask(t, Run(Manager_aenter(Machine(t), a), a), "with", FALSE)

\* the block of the `async with` is left normally
WithExit(t) ==
  /\ Ready(t)
  /\ InWith(t)
  /\ ~tl[t].mgr
  /\ \E a \in Addr : InstallTask(t, Run(Manager_aexit(Machine(t), "", a), a), "exit", FALSE)

\* the block of the `async with` raises
WithRaise(t) ==
  /\ Ready(t)
  /\ InWith(t)
  /\ ~tl[t].mgr
  /\ \E a \in Addr : InstallTask(t, Run(Raise(Machine(t), "UserError"), a), "exit", FALSE)

\* await f.close()
Close(t) ==
  /\ Ready(t)
  /\ ~tl[t].mgr
  /\ \E a \in Addr : InstallTask(t, Run(File_close(Machine(t), a), a), "close", FALSE)

\* await f.read(size)
Read(t, size) ==
  /\ Ready(t)
  /\ ~tl[t].mgr
  /\ \E a \in Addr : InstallTask(t, Run(File_read(Machine(t), size, a), a), "read", FALSE)

\* await f.readline()
Readline(t) ==
  /\ Ready(t)
  /\ ~tl[t].mgr
  /\ \E a \in Addr : InstallTask(t, Run(File_readline(Machine(t), a), a), "readline", FALSE)

\* async for line in f: ...
Iterate(t) ==
  /\ Ready(t)
  /\ ~tl[t].mgr
  /\ \E a \in Addr :
       InstallTask(t, Run(File_aiter([Machine(t) EXCEPT !.out = <<>>], a), a), "aiter", FALSE)

\* await f.write(data)
Write(t, data) ==
  /\ Ready(t)
  /\ ~tl[t].mgr
  /\ \E a \in Addr : InstallTask(t, Run(File_write(Machine(t), data, a), a), "write", FALSE)

\* f.seek(offset)
Seek(t, offset) ==
  /\ Ready(t)
  /\ ~tl[t].mgr
  /\ InstallTask(t, [Machine(t) EXCEPT !.offset = offset, !.mode = "idle"], "seek", FALSE)

\* The loop resumes the coroutine of task t: the future it awaits is done.
Resume(t) ==
  /\ ~exiting
  /\ pc[t] = "wait"
  /\ ready # <<>>
  /\ Head(ready) = tl[t].fut
  /\ LET f == futs[tl[t].fut]
         M0 == [Machine(t) EXCEPT !.r.futs[tl[t].fut].held = FALSE, !.r.ready = Tail(@)]
     IN \E a \in AddrOf(M0.r) :
          InstallTask(t, Run(Resumed(M0, f), a), tl[t].op, FALSE)

(* --------------------------- specifications ---------------------------- *)
InitRing ==
  /\ setup_done = Uring_init.setup_done
  /\ store = Uring_init.store
  /\ loop_reader = Uring_init.loop_reader
  /\ atexit_hooks = Uring_init.atexit_hooks
  /\ ring_live = Uring_init.ring_live
  /\ init_count = Uring_init.init_count
  /\ exit_count = Uring_init.exit_count
  /\ sq = Uring_init.sq
  /\ unprepared = Uring_init.unprepared
  /\ cq = Uring_init.cq
  /\ event_fd = Uring_init.event_fd
  /\ futs = Uring_init.futs
  /\ nfut = Uring_init.nfut
  /\ ready = Uring_init.ready
  /\ cb_raised = Uring_init.cb_raised
  /\ cleanup_raised = Uring_init.cleanup_raised
  /\ exiting = FALSE
  /\ hooks_left = 0

\* File.__init__
InitFile ==
  /\ f_fd = None
  /\ f_offset = 0
  /\ pc = [t \in Tasks |-> "idle"]
  /\ tl = [t \in Tasks |-> TaskInit]

\* The ring primitives under arbitrary callers.
Init ==
  /\ InitRing
  /\ InitFile
  /\ kfds = {}
  /\ disk = <<97, 98, 99>>

Next ==
  \/ RawOpen
  \/ RawClose
  \/ RawRead
  \/ RawWrite
  \/ RawAwait
  \/ Complete
  \/ Callback

Spec == Init /\ [][Next]_vars

\* The life cycle of the ring: lazy setup, cleanup(), the atexit hooks.
NextLife ==
  \/ RawOpen
  \/ RawAwait
  \/ Complete
  \/ Callback
  \/ Cleanup
  \/ ProcessExit
  \/ AtExitHook

SpecLife == Init /\ [][NextLife]_vars

\* Several coroutines on one File handle (they write only while it is open).
Bytes == {97}

RECURSIVE SeqsUpTo(_, _)
SeqsUpTo(S, n) ==
  IF n = 0 THEN {<<>>}
  ELSE LET shorter == SeqsUpTo(S, n - 1)
       IN shorter \cup {Append(q, b) : q \in {x \in shorter : Len(x) = n - 1}, b \in S}

InitShared ==
  /\ InitRing
  /\ InitFile
  /\ kfds = {}
  /\ disk = <<97>>

NextHandle ==
  \/ \E t \in Tasks : OpenCall(t)
  \/ \E t \in Tasks : OpenAwait(t)
  \/ \E t \in Tasks : Close(t)
  \/ \E t \in Tasks : Read(t, None)
  \/ \E t \in Tasks : f_fd # None /\ Write(t, <<120>>)
  \/ \E t \in Tasks : Resume(t)
  \/ Complete
  \/ Callback

SpecHandle == InitShared /\ [][NextHandle]_vars

\* One coroutine using the handle, also through `async with` (it writes
\* only while the handle is open).
InitHandle ==
  /\ InitRing
  /\ InitFile
  /\ kfds = {}
  /\ disk \in SeqsUpTo(Bytes, MaxDisk)

NextScoped ==
  \/ OpenCall(1)
  \/ OpenAwait(1)
  \/ WithEnter(1)
  \/ WithExit(1)
  \/ WithRaise(1)
  \/ Close(1)
  \/ \E size \in {None, 1} : Read(1, size)
  \/ f_fd # None /\ Write(1, <<120>>)
  \/ \E offset \in 0..1 : Seek(1, offset)
  \/ Resume(1)
  \/ Complete
  \/ Callback

SpecScoped == InitHandle /\ [][NextScoped]_vars

\* One coroutine that also calls read, readline and write on a handle that
\* is not open.
NextMisuse ==
  \/ OpenCall(1)
  \/ OpenAwait(1)
  \/ Close(1)
  \/ Read(1, None)
  \/ Readline(1)
  \/ Write(1, <<120>>)
  \/ Resume(1)
  \/ Complete
  \/ Callback

SpecMisuse == InitShared /\ [][NextMisuse]_vars

\* One coroutine that writes to the empty file from offset 0 and reads back.
Payloads == SeqsUpTo({120, 121}, MaxPayload) \ {<<>>}

InitRound ==
  /\ InitRing
  /\ InitFile
  /\ kfds = {}
  /\ disk = <<>>

NextRound ==
  \/ OpenCall(1)
  \/ OpenAwait(1)
  \/ Close(1)
  \/ \E data \in Payloads : f_fd # None /\ f_offset = 0 /\ disk = <<>> /\ Write(1, data)
  \/ \E size \in {None} \cup (1..MaxPayload) : Read(1, size)
  \/ Seek(1, 0)
  \/ Resume(1)
  \/ Complete
  \/ Callback

SpecRound == InitRound /\ [][NextRound]_vars

\* One coroutine reading a file that another process truncates.
NextShort ==
  \/ OpenCall(1)
  \/ OpenAwait(1)
  \/ Close(1)
  \/ \E size \in {None, 1} : Read(1, size)
  \/ Seek(1, 0)
  \/ Shrink
  \/ Resume(1)
  \/ Complete
  \/ Callback

SpecShort == InitShared /\ [][NextShort]_vars

\* One coroutine reading lines from files longer than one chunk.
Hello == <<104, 101, 108, 108, 111, NL, 119, 111, 114, 108, 100>>

\* The subsets of S that have at most n elements.
RECURSIVE SmallSubsets(_, _)
SmallSubsets(S, n) ==
  IF n = 0 THEN {{}}
  ELSE LET smaller == SmallSubsets(S, n - 1)
       IN smaller \cup {s \cup {x} : s \in smaller, x \in S}

\* Where the newlines of these files may be: at the start of the file and
\* around the end of the first chunk.
NewlineSpots == (1..3) \cup ((ChunkSize - 1)..(ChunkSize + MaxExtra))

LineFile(len, nls) == [i \in 1..len |-> IF i \in nls THEN NL ELSE 97 + (i % 3)]

LineFiles ==
  {Hello} \cup
  {LineFile(len, nls) : len \in 0..(ChunkSize + MaxExtra),
                        nls \in SmallSubsets(NewlineSpots, MaxNewlines)}

InitLines ==
  /\ InitRing
  /\ InitFile
  /\ kfds = {}
  /\ disk \in LineFiles

NextLines ==
  \/ OpenCall(1)
  \/ OpenAwait(1)
  \/ Readline(1)
  \/ Iterate(1)
  \/ Resume(1)
  \/ Complete
  \/ Callback

SpecLines == InitLines /\ [][NextLines]_vars

\* One coroutine calling readline() with the cursor where earlier calls left
\* it, or moved off the start of the file by seek().
NextCursor ==
  \/ OpenCall(1)
  \/ OpenAwait(1)
  \/ Readline(1)
  \/ \E offset \in 1..2 : f_offset = 0 /\ Seek(1, offset)
  \/ Resume(1)
  \/ Complete
  \/ Callback

SpecCursor == InitLines /\ [][NextCursor]_vars

(* ======================= properties of the ring ======================== *)
OpsOf(q) == {q[i].op : i \in 1..Len(q)}
InFlight == {e.op : e \in sq}

\* The value a future was resolved with is the outcome of completion c.
OutcomeOf(f, c) ==
  CASE f.kind = "OPEN" -> f.ival = c.res /\ f.bval = <<>>
    [] f.kind = "READ" -> f.ival = None /\ Len(f.bval) >= Len(c.xfer)
                          /\ SubSeq(f.bval, 1, Len(c.xfer)) = c.xfer
    [] OTHER -> f.ival = None /\ f.bval = <<>>

\* C1: under every interleaving of submissions and completions, set_result
\* is called at most once on each future, a future is resolved by the
\* completion of its own operation (the one whose user_data is its id) and
\* with that completion's outcome, and every operation whose completion was
\* consumed has its future resolved exactly once.
C1_NoCrossTalk ==
  \A o \in 1..nfut :
    /\ futs[o].nres <= 1
    /\ futs[o].state = "pending" => futs[o].nres = 0
    /\ futs[o].state = "done" =>
         /\ futs[o].nres = 1
         /\ futs[o].cqe.op = o
         /\ futs[o].cqe.user_data = futs[o].addr
         /\ OutcomeOf(futs[o], futs[o].cqe)
    /\ o \notin InFlight \cup OpsOf(cq) => futs[o].nres = 1

\* Two READs completed against submission order and each future holds the
\* bytes of its own read.
C1_Witness ==
  \E o1, o2 \in 1..nfut :
    /\ o1 < o2
    /\ futs[o1].kind = "READ" /\ futs[o2].kind = "READ"
    /\ ready = <<o2, o1>>
    /\ futs[o1].cqe.res = 2 /\ futs[o2].cqe.res = 2
    /\ futs[o1].bval # futs[o2].bval

\* C2: once the callback has run on a completion with a negative result
\* code, the future of that operation is resolved (with the failure), so its
\* caller is woken.  (The eventfd counter is 0 only after the callback ran
\* on all that was posted.)
C2_FailureReachesCaller ==
  (loop_reader /\ event_fd = 0) =>
    \A i \in 1..Len(cq) : cq[i].res < 0 => futs[cq[i].op].state # "pending"

\* C3: when the kernel has completed every submitted operation and the
\* callback has run after the last completion, no future is left pending.
C3_AllResolvedWhenDrained ==
  (loop_reader /\ sq = {} /\ event_fd = 0) =>
    \A o \in 1..nfut : futs[o].state = "done"

\* C4: one invocation of eventfd_callback consumes every completion that is
\* available and resolves the future of each.
C4_DrainExhaustive ==
  [][Callback => /\ cq' = <<>>
                 /\ \A i \in 1..Len(cq) : futs'[cq[i].op].state = "done"]_vars

\* C5: cleanup() on a ring that is not set up (a second call in a row, a
\* call before any setup) does not raise and releases nothing.
C5_TeardownIdempotent ==
  /\ cleanup_raised = 0
  /\ exit_count <= init_count

(* ===================== properties of the File handle =================== *)
\* The frame of the `async with` block is the outermost frame of task t.
Scoped(st) == st # <<>> /\ st[1].fn \in {"with", "aexit"}
InBlock(st) == st # <<>> /\ st[1].fn = "with"

\* A CLOSE for descriptor fd is what the step submitted.
SubmitsClose(fd) ==
  /\ nfut' = nfut + 1
  /\ \E e \in sq' \ sq : e.kind = "CLOSE" /\ e.fd = fd /\ e.op = nfut'
  /\ futs'[nfut'].kind = "CLOSE"

\* C6: after a successful entry into `async with f.open(...)`, every step
\* in which the task leaves the block (normally or with an exception)
\* while the handle holds a descriptor submits a CLOSE for that descriptor
\* and awaits it, and every step that ends the whole statement leaves the
\* handle's descriptor None.
C6_ScopedRelease ==
  [][\A t \in Tasks :
       /\ (pc[t] = "idle" /\ InBlock(tl[t].stack) /\ ~InBlock(tl'[t].stack) /\ f_fd # None)
            => /\ SubmitsClose(f_fd)
               /\ pc'[t] = "wait"
               /\ tl'[t].fut = nfut'
               /\ Top(tl'[t].stack).fn = "close"
       /\ (Scoped(tl[t].stack) /\ tl'[t].stack = <<>>) => f_fd' = None]_vars

\* The block raised, the statement is over: the descriptor is closed in the
\* kernel and cleared in the handle.
C6_Witness ==
  /\ pc[1] = "idle"
  /\ tl[1].op = "exit"
  /\ tl[1].exc = "UserError"
  /\ tl[1].stack = <<>>
  /\ f_fd = None
  /\ kfds = {}
  /\ \E o \in 1..nfut : futs[o].kind = "CLOSE" /\ futs[o].state = "done"

\* C7: read() on an open handle with file_size - offset <= 0 returns an
\* empty result and submits nothing: the number of submissions, the store,
\* the kernel's queue and the offset are unchanged.
C7_ReadAtEndNoSubmit ==
  [][\A t \in Tasks : \A size \in {None, 1} :
       (/\ f_fd # None
        /\ Len(disk) - f_offset <= 0
        /\ pc[t] = "idle"
        /\ tl'[t].op = "read"
        /\ Read(t, size))
         => /\ tl'[t].val = <<>>
            /\ tl'[t].exc = ""
            /\ pc'[t] = "idle"
            /\ nfut' = nfut
            /\ store' = store
            /\ sq' = sq
            /\ f_offset' = f_offset]_vars

\* read() returned empty at the end of a file that is not empty.
C7_Witness ==
  /\ pc[1] = "idle"
  /\ tl[1].op = "read"
  /\ tl[1].val = <<>>
  /\ tl[1].exc = ""
  /\ f_fd # None
  /\ Len(disk) > 0
  /\ f_offset = Len(disk)

\* C8: once readline() has returned an empty result, the next readline()
\* on the handle (no seek, file unchanged) returns an empty result too.
C8_ReadlineEndIdempotent ==
  \A t \in Tasks :
    (pc[t] = "idle" /\ tl[t].op = "readline" /\ tl[t].exc = "" /\ tl[t].prev_empty)
      => tl[t].val = <<>>

\* The lines of a file: the stretches between newlines, the last one only
\* if it is not empty.
RECURSIVE SplitLines(_)
SplitLines(d) ==
  IF d = <<>> THEN <<>>
  ELSE LET nl == Find(d, NL)
       IN IF nl = 0 - 1 THEN <<d>>
          ELSE <<SubSeq(d, 1, nl)>> \o SplitLines(SubSeq(d, nl + 2, Len(d)))

\* C9: an `async for` over a handle at offset 0 that has ended has produced
\* the lines of the file, in order, each without its newline.
C9_IterationYieldsLines ==
  \A t \in Tasks :
    (pc[t] = "idle" /\ tl[t].op = "aiter" /\ tl[t].exc = "" /\ tl[t].iter_from = 0)
      => tl[t].out = SplitLines(disk)

\* C10: no OPEN is submitted while the handle holds a descriptor, and a
\* descriptor held by the handle is only ever replaced by None.
C10_OpenOnlyWhenClosed ==
  [][f_fd # None =>
       /\ f_fd' \in {f_fd, None}
       /\ \A e \in sq' \ sq : e.kind # "OPEN"]_vars

\* C11: read(), readline() and write() called while the handle's descriptor
\* is None end at once with the precondition error (the assertion), submit
\* nothing to the ring and leave the offset unchanged.
C11_NotOpenFailsFast ==
  [][\A t \in Tasks :
       (/\ f_fd = None
        /\ pc[t] = "idle"
        /\ tl'[t].op \in {"read", "readline", "write"}
        /\ (Read(t, None) \/ Readline(t) \/ Write(t, <<120>>)))
         => /\ tl'[t].exc = "AssertionError"
            /\ pc'[t] = "idle"
            /\ nfut' = nfut
            /\ store' = store
            /\ sq' = sq
            /\ f_offset' = f_offset]_vars

C13_ShortReadSized ==
  [][/\ \A o \in 1..nfut' :
          (futs'[o].kind = "READ" /\ futs'[o].state = "done" /\ futs'[o].cqe.res >= 0)
            => futs'[o].bval = futs'[o].cqe.xfer
     /\ \A t \in Tasks :
          (/\ pc[t] = "wait" /\ pc'[t] = "idle"
           /\ tl[t].stack # <<>>
           /\ Top(tl[t].stack).fn = "read") =>
            /\ tl'[t].val = futs[tl[t].fut].cqe.xfer
            /\ f_offset' = f_offset + futs[tl[t].fut].cqe.res]_vars

\* Operations that were submitted and whose completion the callback has not
\* consumed.
Unconsumed == {o \in 1..nfut : futs[o].state = "pending"}

\* C14: the keys of the store are exactly the ids of the operations
\* submitted and not yet consumed, each key leads to the entry of its own
\* operation, no two such operations share an id, and an id used again
\* belongs to an operation whose completion was consumed.
C14_StoreIsInFlight ==
  /\ DOMAIN store = {futs[o].addr : o \in Unconsumed}
  /\ \A k \in DOMAIN store :
       /\ store[k].future \in Unconsumed
       /\ futs[store[k].future].addr = k
       /\ futs[store[k].future].kind = store[k].request_type
  /\ \A o1, o2 \in 1..nfut :
       (o1 < o2 /\ futs[o1].addr = futs[o2].addr) => futs[o1].state = "done"

\* An id is in use a second time, for an operation in flight, after the
\* first operation that had it was consumed and its future dropped.
C14_Witness ==
  \E o1, o2 \in 1..nfut :
    /\ o1 < o2
    /\ futs[o1].addr = futs[o2].addr
    /\ futs[o1].state = "done"
    /\ futs[o2].state = "pending"
    /\ futs[o2].addr \in DOMAIN store
    /\ Cardinality(DOMAIN store) = 2

\* C15: io_uring_queue_exit never ran more often than io_uring_queue_init,
\* at most one ring that was created is not yet released, and once the
\* process has exited and its atexit hooks have run, every ring that was
\* created has been released.
C15_RingReleasedOnce ==
  /\ exit_count <= init_count
  /\ init_count <= exit_count + 1
  /\ (exiting /\ hooks_left = 0) => exit_count = init_count

\* The process has exited after the ring was torn down by cleanup(), set up
\* again by a later submission and released by a hook; another hook found
\* nothing to release.
C15_Witness ==
  /\ exiting
  /\ hooks_left = 0
  /\ init_count = 2
  /\ exit_count = 2
  /\ atexit_hooks = 2
  /\ cleanup_raised = 1

\* C16: setup is lazy and guarded.  Nothing is set up before the first
\* submission; every submission leaves the ring set up, live and watched by
\* the loop; and setup only ever runs, once, on a handle that is not set up
\* and has no live ring (so never twice without a teardown in between).
C16_LazyGuardedSetup ==
  [][/\ nfut = 0 => (init_count = 0 /\ ~setup_done /\ atexit_hooks = 0)
     /\ nfut' = nfut + 1 =>
          /\ setup_done' /\ ring_live' /\ loop_reader'
          /\ init_count' >= 1
          /\ \E e \in sq' : e.op = nfut'
     /\ init_count' # init_count =>
          /\ ~setup_done /\ ~ring_live
          /\ init_count' = init_count + 1
          /\ exit_count = init_count]_vars

\* A submission found the ring set up and used it; an earlier one had set
\* it up again after a teardown.
C16_Witness ==
  /\ init_count = 2
  /\ exit_count = 1
  /\ setup_done
  /\ nfut = 3
  /\ \E e \in sq : e.op = 2
  /\ \E e \in sq : e.op = 3

OpsInOrder(q) == [i \in 1..Len(q) |-> q[i].op]

\* C18: one run of eventfd_callback resolves the futures of the completions
\* at the front of the queue in their order of arrival, without skipping or
\* reordering, and nothing else; the waiters are scheduled in that order.
C18_ArrivalOrder ==
  [][Callback =>
       \E n \in 0..Len(cq) :
         /\ cq' = SubSeq(cq, n + 1, Len(cq))
         /\ ready' = ready \o OpsInOrder(SubSeq(cq, 1, n))
         /\ \A o \in 1..nfut :
              (futs[o].state # futs'[o].state) <=> (\E i \in 1..n : cq[i].op = o)]_vars

\* A WRITE submitted after a READ completed before it, and both futures
\* were resolved in that order, the later submission first.
C18_Witness ==
  \E o1, o2 \in 1..nfut :
    /\ o1 < o2
    /\ futs[o1].kind = "READ" /\ futs[o2].kind = "WRITE"
    /\ futs[o1].state = "done" /\ futs[o2].state = "done"
    /\ ready = <<o2, o1>>
    /\ cq = <<>>

\* C19: a completion with a negative result code does not hold back the
\* others: once the callback has run on all that was posted, every
\* completion with a non-negative result, also one that arrived with or
\* after a negative one, has been consumed and its future resolved.
C19_NegativeDoesNotBlock ==
  (loop_reader /\ event_fd = 0) =>
    \A i \in 1..Len(cq) :
      cq[i].res >= 0 => (futs[cq[i].op].state = "done" /\ cq[i].user_data \notin DOMAIN store)

\* C20: a handle whose descriptor is None (never opened, or closed by a
\* close() that completed) has offset 0, whatever completes or resumes
\* afterwards.  (The tasks of this specification do not call seek.)
C20_ClosedMeansReset == f_fd = None => f_offset = 0

====
